---------------------------- MODULE Spec2Model ----------------------------
(***************************************************************************)
(* Model of crates/xsd/src/extract_schema.py: the catalog parser and URI   *)
(* mapper built by create_uri_mapper, and the schema extraction helpers    *)
(* extract_element_info, extract_type_info, extract_complex_type_info and  *)
(* extract_simple_type_info.                                               *)
(*                                                                         *)
(* Python strings that the code inspects character by character (catalog   *)
(* lines, paths, URIs, class names) are sequences of one-character         *)
(* strings.  An optional string (None or a str) is a record                *)
(* [isNone, v].  A dict is a function; hasattr(o, f) is f \in DOMAIN o.    *)
(***************************************************************************)
EXTENDS Integers, Sequences, FiniteSets, TLC

(***************************************************************************)
(* Bounds of the model                                                     *)
(***************************************************************************)
MaxLines == 3

MaxAttrs == 2

MaxParticles == 2

MaxDepth == 3

(***************************************************************************)
(* Characters and string helpers (str.strip, str.startswith, str.split)    *)
(***************************************************************************)
QUOTE == "\""

Whitespace == {" ", "\t", "\n", "\r"}

None == [isNone |-> TRUE, v |-> <<>>]

Some(s) == [isNone |-> FALSE, v |-> s]

\* Python truthiness of an optional string: None and "" are falsy.
TruthyOpt(o) == ~o.isNone /\ o.v # <<>>

StartsWith(s, p) == Len(s) >= Len(p) /\ SubSeq(s, 1, Len(p)) = p

RECURSIVE LStrip(_)
LStrip(s) ==
  IF s # <<>> /\ s[1] \in Whitespace THEN LStrip(Tail(s)) ELSE s

RECURSIVE RStrip(_)
RStrip(s) ==
  IF s # <<>> /\ s[Len(s)] \in Whitespace
  THEN RStrip(SubSeq(s, 1, Len(s) - 1))
  ELSE s

\* line.strip()
Strip(s) == RStrip(LStrip(s))

\* s.split(sep) for a one-character separator: always at least one part.
RECURSIVE SplitFrom(_, _, _)
SplitFrom(s, sep, cur) ==
  IF s = <<>> THEN <<cur>>
  ELSE IF s[1] = sep THEN <<cur>> \o SplitFrom(Tail(s), sep, <<>>)
  ELSE SplitFrom(Tail(s), sep, Append(cur, s[1]))

Split(s, sep) == SplitFrom(s, sep, <<>>)

RECURSIVE JoinWith(_, _)
JoinWith(parts, sep) ==
  IF parts = <<>> THEN <<>>
  ELSE IF Len(parts) = 1 THEN parts[1]
  ELSE parts[1] \o <<sep>> \o JoinWith(Tail(parts), sep)

(***************************************************************************)
(* pathlib: a path is [root, parts]; root is "" (relative), "/" or "//".   *)
(***************************************************************************)
RECURSIVE CountLeadingSlashes(_)
CountLeadingSlashes(s) ==
  IF s # <<>> /\ s[1] = "/" THEN 1 + CountLeadingSlashes(Tail(s)) ELSE 0

PathRoot(s) ==
  LET n == CountLeadingSlashes(s)
  IN  IF n = 0 THEN <<>> ELSE IF n = 2 THEN <<"/", "/">> ELSE <<"/">>

\* The segments of a path string: empty and "." segments are dropped.
PathSegments(s) ==
  SelectSeq(Split(s, "/"), LAMBDA seg : seg # <<>> /\ seg # <<".">>)

\* PathLib(s)
ParsePath(s) == [root |-> PathRoot(s), parts |-> PathSegments(s)]

\* p / s : a rooted right operand replaces the left one.
PathJoin(p, s) ==
  LET q == ParsePath(s)
  IN  IF q.root # <<>> THEN q
      ELSE [root |-> p.root, parts |-> p.parts \o q.parts]

\* p.parent
PathParent(p) ==
  IF p.parts = <<>> THEN p
  ELSE [root |-> p.root, parts |-> SubSeq(p.parts, 1, Len(p.parts) - 1)]

\* Resolution of ".." segments of an absolute path, left to right; ".." at
\* the root stays at the root.  The file system holds no symbolic links.
RECURSIVE CollapseDotDot(_, _)
CollapseDotDot(done, todo) ==
  IF todo = <<>> THEN done
  ELSE IF todo[1] = <<".", ".">>
       THEN CollapseDotDot(IF done = <<>> THEN <<>>
                           ELSE SubSeq(done, 1, Len(done) - 1), Tail(todo))
       ELSE CollapseDotDot(Append(done, todo[1]), Tail(todo))

\* p.resolve() for an absolute p
PathResolve(p) == [root |-> p.root, parts |-> CollapseDotDot(<<>>, p.parts)]

\* str(p)
PathStr(p) ==
  IF p.root = <<>> /\ p.parts = <<>> THEN <<".">>
  ELSE p.root \o JoinWith(p.parts, "/")

(***************************************************************************)
(* urllib.parse.unquote                                                    *)
(***************************************************************************)
HexUpper == <<"0","1","2","3","4","5","6","7","8","9","A","B","C","D","E","F">>

HexLower == <<"0","1","2","3","4","5","6","7","8","9","a","b","c","d","e","f">>

IsHex(c) == \E i \in 1..16 : HexUpper[i] = c \/ HexLower[i] = c

HexVal(c) == (CHOOSE i \in 1..16 : HexUpper[i] = c \/ HexLower[i] = c) - 1

\* The printable ASCII characters, code points 32 to 126 (the grave accent,
\* which a string literal cannot hold, is written "<grave>").
Ascii ==
  <<" ","!","\"","#","$","%","&","'","(",")","*","+",",","-",".","/",
    "0","1","2","3","4","5","6","7","8","9",":",";","<","=",">","?",
    "@","A","B","C","D","E","F","G","H","I","J","K","L","M","N","O",
    "P","Q","R","S","T","U","V","W","X","Y","Z","[","\\","]","^","_",
    "<grave>","a","b","c","d","e","f","g","h","i","j","k","l","m","n","o",
    "p","q","r","s","t","u","v","w","x","y","z","{","|","}","~">>

\* The character of a decoded byte.  The inputs of the model only escape
\* printable ASCII; any other byte is one marker character.
ByteChar(n) == IF n \in 32..126 THEN Ascii[n - 31] ELSE "<byte>"

RECURSIVE Unquote(_)
Unquote(s) ==
  IF s = <<>> THEN <<>>
  ELSE IF s[1] = "%" /\ Len(s) >= 3 /\ IsHex(s[2]) /\ IsHex(s[3])
       THEN <<ByteChar(16 * HexVal(s[2]) + HexVal(s[3]))>>
            \o Unquote(SubSeq(s, 4, Len(s)))
       ELSE <<s[1]>> \o Unquote(Tail(s))

(***************************************************************************)
(* Inputs: catalog files and the URIs handed to the mapper                 *)
(***************************************************************************)
kw_BASE ==
  <<"B","A","S","E">>

kw_URI ==
  <<"U","R","I">>

kw_COMMENT ==
  <<"-","-">>

PARENT_PREFIX ==
  <<".",".","/",".",".","/">>

\* "/cat/catalog.xml"
path_cat ==
  <<"/","c","a","t","/","c","a","t","a","l","o","g",".","x","m","l">>

\* "/opt/dita/c.txt"
path_deep ==
  <<"/","o","p","t","/","d","i","t","a","/","c",".","t","x","t">>

\* an empty line
line_empty ==
  <<>>

\* -- c
line_comment ==
  <<"-","-"," ","c">>

\* BASE "../../schemas/"
line_base_schemas ==
  <<"B","A","S","E"," ","\"",".",".","/",".",".","/","s","c","h","e","m",
    "a","s","/","\"">>

\* BASE "../../../../x"
line_base_deep ==
  <<"B","A","S","E"," ","\"",".",".","/",".",".","/",".",".","/",".",".",
    "/","x","\"">>

\* BASE "b", indented and with its line end
line_base_plain ==
  <<" "," ","B","A","S","E"," ","\"","b","\"","\n">>

\* BASE with no quoted field
line_base_bare ==
  <<"B","A","S","E">>

\* URI "urn:example:foo" "ignored" "foo.xsd"
line_uri_three ==
  <<"U","R","I"," ","\"","u","r","n",":","e","x","a","m","p","l","e",":",
    "f","o","o","\""," ","\"","i","g","n","o","r","e","d","\""," ","\"","f",
    "o","o",".","x","s","d","\"">>

\* URI "urn%3Aexample%3Afoo" "../e.xsd"
line_uri_enc ==
  <<"U","R","I"," ","\"","u","r","n","%","3","A","e","x","a","m","p","l",
    "e","%","3","A","f","o","o","\""," ","\"",".",".","/","e",".","x","s",
    "d","\"">>

\* URI "urn:example:foo": one quoted field
line_uri_short ==
  <<"U","R","I"," ","\"","u","r","n",":","e","x","a","m","p","l","e",":",
    "f","o","o","\"">>

\* PUBLIC "urn:example:foo" "p.xsd"
line_other ==
  <<"P","U","B","L","I","C"," ","\"","u","r","n",":","e","x","a","m","p",
    "l","e",":","f","o","o","\""," ","\"","p",".","x","s","d","\"">>

\* "urn:example:foo"
urn_foo ==
  <<"u","r","n",":","e","x","a","m","p","l","e",":","f","o","o">>

\* "urn%3Aexample%3Afoo"
urn_foo_enc ==
  <<"u","r","n","%","3","A","e","x","a","m","p","l","e","%","3","A","f","o",
    "o">>

\* "urn%253Aexample%253Afoo"
urn_foo_enc2 ==
  <<"u","r","n","%","2","5","3","A","e","x","a","m","p","l","e","%","2","5",
    "3","A","f","o","o">>

\* "urn:unknown"
urn_unknown ==
  <<"u","r","n",":","u","n","k","n","o","w","n">>

\* "a%20b.xsd"
uri_file ==
  <<"a","%","2","0","b",".","x","s","d">>

CatalogPaths == {path_cat, path_deep}

Lines ==
  {line_empty, line_comment, line_base_schemas, line_base_deep,
   line_base_plain, line_base_bare, line_uri_three, line_uri_enc,
   line_uri_short, line_other}

\* The files of at most MaxLines lines.
Catalogs == UNION {[1..n -> Lines] : n \in 0..MaxLines}

\* The arguments of uri_mapper: None or a URI string.
UriInputs ==
  {None} \cup {Some(u) : u \in {urn_foo, urn_foo_enc, urn_foo_enc2,
                                urn_unknown, uri_file}}

(***************************************************************************)
(* create_uri_mapper: the catalog parser                                   *)
(***************************************************************************)
\* catalog_dir = PathLib(catalog_path).parent
CatalogDir(path) == PathParent(ParsePath(path))

\* Faulty variant of StripBasePrefix: every leading "../../" is removed.
RECURSIVE StripBasePrefix_Repeated(_)
StripBasePrefix_Repeated(v) ==
  IF StartsWith(v, PARENT_PREFIX)
  THEN StripBasePrefix_Repeated(SubSeq(v, 7, Len(v)))
  ELSE v

\* if current_base.startswith('../../'): current_base = current_base[6:]
StripBasePrefix(v) ==
  IF StartsWith(v, PARENT_PREFIX) THEN SubSeq(v, 7, Len(v)) ELSE v

\* Faulty variant of ParseBase: a BASE line without a quoted field clears the base.
ParseBase_Reset(line, cur) ==
  LET parts == Split(line, QUOTE)
  IN  IF Len(parts) >= 2 THEN Some(StripBasePrefix(parts[2])) ELSE None

\* The BASE branch: current_base after the line.
ParseBase(line, cur) ==
  LET parts == Split(line, QUOTE)
  IN  IF Len(parts) >= 2 THEN Some(StripBasePrefix(parts[2])) ELSE cur

\* urn = parts[1]
UriUrn(parts) == parts[2]

\* Faulty variant of UriLocalPath: the last quoted field is the local path.
UriLocalPath_LastField(parts) ==
  IF Len(parts) % 2 = 1 THEN parts[Len(parts) - 1] ELSE parts[Len(parts)]

\* local_path = parts[3]
UriLocalPath(parts) == parts[4]

\* full_path: catalog_dir / current_base / local_path, or without the base
\* when current_base is None or empty.
FullPath(dir, base, local) ==
  IF TruthyOpt(base) THEN PathJoin(PathJoin(dir, base.v), local)
  ELSE PathJoin(dir, local)

\* Faulty variant of MapInsert: an existing entry is kept (setdefault).
MapInsert_KeepFirst(map, urn, path) == map @@ (urn :> path)

\* urn_map[urn] = path
MapInsert(map, urn, path) == (urn :> path) @@ map

\* Faulty variant of ParseUri: one quoted field is enough, the local path is then "".
ParseUri_OneFieldEnough(line, dir, base, map) ==
  LET parts == Split(line, QUOTE)
      local == IF Len(parts) >= 4 THEN UriLocalPath(parts) ELSE <<>>
  IN  IF Len(parts) >= 2
      THEN MapInsert(map, UriUrn(parts),
                     PathStr(PathResolve(FullPath(dir, base, local))))
      ELSE map

\* The URI branch: urn_map after the line.
ParseUri(line, dir, base, map) ==
  LET parts == Split(line, QUOTE)
  IN  IF Len(parts) >= 4
      THEN MapInsert(map, UriUrn(parts),
                     PathStr(PathResolve(FullPath(dir, base,
                                                  UriLocalPath(parts)))))
      ELSE map

\* if not line or line.startswith('--'): continue
IsSkipped(line) == line = <<>> \/ StartsWith(line, kw_COMMENT)

\* One iteration of the loop over the file: st = [map, base].
LineStep(st, raw, dir) ==
  LET line == Strip(raw)
  IN  IF IsSkipped(line) THEN st
      ELSE IF StartsWith(line, kw_BASE)
           THEN [map |-> st.map, base |-> ParseBase(line, st.base)]
      ELSE IF StartsWith(line, kw_URI)
           THEN [map |-> ParseUri(line, dir, st.base, st.map),
                 base |-> st.base]
      ELSE st

(***************************************************************************)
(* uri_mapper: the resolver closure                                        *)
(***************************************************************************)
\* urn_map.get(key)
MapGet(map, key) == IF key \in DOMAIN map THEN Some(map[key]) ELSE None

\* Faulty variant of Fallback: the decoded URI is returned.
Fallback_Decoded(uri, decoded) == decoded

\* The value returned when neither lookup succeeds.
Fallback(uri, decoded) == uri

\* Faulty variant of Lookup: only the URI as given is looked up.
Lookup_AsGivenOnly(map, uri, decoded) == MapGet(map, uri)

\* urn_map.get(decoded_uri) or urn_map.get(uri)
Lookup(map, uri, decoded) ==
  LET first == MapGet(map, decoded)
  IN  IF TruthyOpt(first) THEN first ELSE MapGet(map, uri)

UriMapper(map, uri) ==
  IF uri.isNone THEN None
  ELSE LET decoded  == Unquote(uri.v)
           resolved == Lookup(map, uri.v, decoded)
       IN  IF TruthyOpt(resolved) THEN resolved
           ELSE Some(Fallback(uri.v, decoded))

(***************************************************************************)
(* The schema object graph handed to the extractor.  A Python scalar is a  *)
(* tagged record; an object is a record of its attributes; a reference to  *)
(* a type object is Ref(id).                                               *)
(***************************************************************************)
PyNone == [t |-> "None"]

PyStr(s) == [t |-> "str", v |-> s]

PyInt(n) == [t |-> "int", v |-> n]

PyBool(b) == [t |-> "bool", v |-> b]

Ref(id) == [t |-> "ref", id |-> id]

\* Python truthiness: None, "", 0 and False are falsy, an object is truthy.
Truthy(x) ==
  CASE x.t = "None" -> FALSE
    [] x.t = "str"  -> x.v # ""
    [] x.t = "int"  -> x.v # 0
    [] x.t = "bool" -> x.v
    [] OTHER        -> TRUE

\* hasattr(obj, field)
HasAttr(obj, field) == field \in DOMAIN obj

\* The characters of the class names, for the substring tests on them.
ClassNameChars ==
  [XsdComplexType        |-> <<"X","s","d","C","o","m","p","l","e","x",
                               "T","y","p","e">>,
   XsdAtomicBuiltin      |-> <<"X","s","d","A","t","o","m","i","c",
                               "B","u","i","l","t","i","n">>,
   XsdAtomicRestriction  |-> <<"X","s","d","A","t","o","m","i","c",
                               "R","e","s","t","r","i","c","t","i","o","n">>,
   XsdSimpleType         |-> <<"X","s","d","S","i","m","p","l","e",
                               "T","y","p","e">>]

\* needle in haystack
Contains(haystack, needle) ==
  \E i \in 1..(Len(haystack) - Len(needle) + 1) :
    SubSeq(haystack, i, i + Len(needle) - 1) = needle

\* A content model that is a group: its element particles, the number of
\* its other direct members (nested groups without elements), and where
\* iter_elements raises (0: nowhere, k: instead of yielding the k-th item).
Group(particles, others, raise_at) ==
  [t |-> "obj", cls |-> "XsdGroup", len |-> Len(particles) + others,
   iter_elements |-> [particles |-> particles, raise_at |-> raise_at]]

\* The content of a complex type with simple content: no iter_elements.
SimpleContent == [t |-> "obj", cls |-> "XsdAtomicBuiltin"]

\* Truthiness of a content object: a group is a sequence (falsy when
\* empty), any other object is truthy.
TruthyContent(c) ==
  IF c.t = "None" THEN FALSE
  ELSE IF HasAttr(c, "len") THEN c.len > 0
  ELSE TRUE

\* The attribute objects a type may declare.
AttrObjs ==
  {[name |-> PyStr("id"), type |-> Ref("T_string"), use |-> PyStr("required"),
    default |-> PyNone],
   [name |-> PyStr("lang"), type |-> Ref("T_opaque"), use |-> PyStr(""),
    default |-> PyStr("en")],
   [name |-> PyNone, type |-> PyNone]}

\* The attribute collections: declaration order, at most MaxAttrs.
AttrSeqs == UNION {[1..n -> AttrObjs] : n \in 0..MaxAttrs}

ElemIds == {"e_leaf", "e_child", "e_bare", "e_subject", "e_bad"}

\* The elements a content model of the subject type may hold.
ParticleIds == {"e_leaf", "e_subject", "e_bad"}

ParticleSeqs == UNION {[1..n -> ParticleIds] : n \in 0..MaxParticles}

\* The element objects; reading a field of e_bad raises.
Elems ==
  [e_leaf    |-> [name |-> PyStr("leaf"), qualified_name |-> PyStr("{ns}leaf"),
                  type |-> Ref("T_string"), min_occurs |-> PyInt(0),
                  max_occurs |-> PyNone, nillable |-> PyBool(TRUE),
                  default |-> PyStr("x"), raises |-> FALSE],
   e_child   |-> [name |-> PyStr("child"),
                  qualified_name |-> PyStr("{ns}child"),
                  type |-> Ref("T_node"), min_occurs |-> PyInt(0),
                  max_occurs |-> PyInt(2), nillable |-> PyBool(FALSE),
                  default |-> PyNone, raises |-> FALSE],
   e_bare    |-> [name |-> PyStr("bare"), qualified_name |-> PyNone,
                  type |-> PyNone, raises |-> FALSE],
   e_subject |-> [name |-> PyStr("subject"),
                  qualified_name |-> PyStr("{ns}subject"),
                  type |-> Ref("T_subject"), min_occurs |-> PyInt(1),
                  max_occurs |-> PyInt(1), raises |-> FALSE],
   e_bad     |-> [raises |-> TRUE]]

TypeIds == {"T_string", "T_token", "T_node", "T_anon", "T_opaque", "T_subject"}

\* The type objects other than the subject.  T_node holds an element of
\* type T_node; T_anon is an anonymous inline type; T_opaque exposes no
\* qualified_name.
FixedTypes ==
  [T_string |-> [cls |-> "XsdAtomicBuiltin", repr |-> "XsdAtomicBuiltin(xs:string)",
                 name |-> PyStr("string"),
                 qualified_name |-> PyStr("{xs}string"),
                 base_type |-> PyNone],
   T_token  |-> [cls |-> "XsdAtomicRestriction", repr |-> "XsdAtomicRestriction(token)",
                 name |-> PyStr("token"), qualified_name |-> PyStr("{ns}token"),
                 base_type |-> Ref("T_string")],
   T_node   |-> [cls |-> "XsdComplexType", repr |-> "XsdComplexType(node)",
                 name |-> PyStr("node"), qualified_name |-> PyStr("{ns}node"),
                 content |-> Group(<<"e_child">>, 0, 0),
                 attributes |-> <<>>],
   T_anon   |-> [cls |-> "XsdComplexType", repr |-> "XsdComplexType(None)",
                 name |-> PyNone, qualified_name |-> PyNone,
                 content |-> Group(<<"e_bare", "e_child">>, 0, 0),
                 attributes |-> <<>>],
   T_opaque |-> [cls |-> "XsdSimpleType", repr |-> "XsdSimpleType(opaque)"]]

\* The subject type with a given attribute collection and content.
SubjectType(attrs, content) ==
  [cls |-> "XsdComplexType", repr |-> "XsdComplexType(subject)",
   name |-> PyStr("subject"), qualified_name |-> PyStr("{ns}subject"),
   content |-> content, attributes |-> attrs]

\* The subject without an attribute collection (hasattr is false).
SubjectWithoutAttributes ==
  [cls |-> "XsdComplexType", repr |-> "XsdComplexType(subject)",
   name |-> PyStr("subject"), qualified_name |-> PyStr("{ns}subject"),
   content |-> Group(<<"e_leaf">>, 0, 0)]

\* The content models of the subject: none, simple content, or a group
\* with its particles, with or without a failing iteration.
Contents ==
  {PyNone, SimpleContent, Group(<<>>, 1, 0), Group(<<>>, 1, 1)}
  \cup {Group(ps, 0, r) : ps \in ParticleSeqs, r \in 0..(MaxParticles + 1)}

SubjectTypes ==
  {SubjectType(as, Group(<<"e_leaf">>, 0, 0)) : as \in AttrSeqs}
  \cup {SubjectWithoutAttributes}
  \cup {SubjectType(<<>>, c) :
          c \in {d \in Contents :
                   HasAttr(d, "iter_elements") =>
                     /\ d.iter_elements.raise_at
                          <= Len(d.iter_elements.particles) + 1
                     /\ d.len = 0 => d.iter_elements.raise_at = 0}}

(***************************************************************************)
(* State                                                                   *)
(***************************************************************************)
VARIABLES
  catalog_path,   \* the argument of create_uri_mapper
  lines,          \* the content of the catalog file
  pc,             \* "start", "parsing", "ioerror", "mapper" (uri_mapper was
                  \* returned) or "resolved" (a call of it has answered)
  idx,            \* the number of lines the loop has consumed
  urn_map,        \* the dict urn -> resolved path
  current_base,   \* None or the value of the last BASE line
  uri_arg,        \* the argument of the last uri_mapper call
  uri_ret,        \* what that call returned
  subject,        \* the type object T_subject of the schema graph
  call,           \* the extractor call of the host: [fn, arg]
  stack,          \* the Python call stack: frames [fn, arg, rets]
  xpc,            \* "idle", "running", "returned" or "raised"
  result          \* the value the host's call returned

catalog_vars ==
  <<catalog_path, lines, pc, idx, urn_map, current_base, uri_arg, uri_ret>>

extract_vars == <<subject, call, stack, xpc, result>>

vars == <<catalog_vars, extract_vars>>

\* No extractor call is in progress.
ExtractorIdle ==
  /\ call = PyNone
  /\ stack = <<>>
  /\ xpc = "idle"
  /\ result = PyNone

CatalogInit ==
  /\ subject = SubjectWithoutAttributes
  /\ ExtractorIdle
  /\ catalog_path \in CatalogPaths
  /\ lines \in Catalogs
  /\ pc = "start"
  /\ idx = 0
  /\ urn_map = <<>>
  /\ current_base = None
  /\ uri_arg = None
  /\ uri_ret = None

\* with open(catalog_path, 'r') as f: the file opens
OpenCatalog ==
  /\ pc = "start"
  /\ pc' = "parsing"
  /\ UNCHANGED <<catalog_path, lines, idx, urn_map, current_base,
                 uri_arg, uri_ret, extract_vars>>

\* open() raises: the error propagates and no mapper is built
OpenFails ==
  /\ pc = "start"
  /\ pc' = "ioerror"
  /\ UNCHANGED <<catalog_path, lines, idx, urn_map, current_base,
                 uri_arg, uri_ret, extract_vars>>

\* for line in f: one iteration
ParseLine ==
  /\ pc = "parsing"
  /\ idx < Len(lines)
  /\ LET st == LineStep([map |-> urn_map, base |-> current_base],
                        lines[idx + 1], CatalogDir(catalog_path))
     IN  /\ urn_map' = st.map
         /\ current_base' = st.base
  /\ idx' = idx + 1
  /\ UNCHANGED <<catalog_path, lines, pc, uri_arg, uri_ret, extract_vars>>

\* end of file: return uri_mapper
ReturnMapper ==
  /\ pc = "parsing"
  /\ idx = Len(lines)
  /\ pc' = "mapper"
  /\ UNCHANGED <<catalog_path, lines, idx, urn_map, current_base,
                 uri_arg, uri_ret, extract_vars>>

\* the schema parser calls uri_mapper(uri)
CallUriMapper ==
  /\ pc = "mapper"
  /\ \E uri \in UriInputs :
       /\ uri_arg' = uri
       /\ uri_ret' = UriMapper(urn_map, uri)
  /\ pc' = "resolved"
  /\ UNCHANGED <<catalog_path, lines, idx, urn_map, current_base,
                 extract_vars>>

\* the schema parser takes the answer; its next call may follow
MapperAnswerTaken ==
  /\ pc = "resolved"
  /\ pc' = "mapper"
  /\ uri_arg' = None
  /\ uri_ret' = None
  /\ UNCHANGED <<catalog_path, lines, idx, urn_map, current_base,
                 extract_vars>>

Next ==
  \/ OpenCatalog
  \/ OpenFails
  \/ ParseLine
  \/ ReturnMapper
  \/ CallUriMapper
  \/ MapperAnswerTaken

Spec == CatalogInit /\ [][Next]_vars

(***************************************************************************)
(* The extraction helpers                                                  *)
(***************************************************************************)
TypeObj(id) == IF id = "T_subject" THEN subject ELSE FixedTypes[id]

\* a or b
PyOr(a, b) == IF Truthy(a) THEN a ELSE b

\* x.qualified_name if hasattr(x, 'qualified_name') and x.qualified_name,
\* else the fallback
QualifiedNameOr(ty, fallback) ==
  IF HasAttr(ty, "qualified_name") /\ Truthy(ty.qualified_name)
  THEN ty.qualified_name
  ELSE fallback

\* obj.field if hasattr(obj, field) else dflt
GetAttrOr(obj, field, dflt) == IF HasAttr(obj, field) THEN obj[field] ELSE dflt

\* The dict of one attribute.
AttrInfo(attr) ==
  [name    |-> PyOr(attr.name, PyStr("unknown")),
   type    |-> IF Truthy(attr.type)
               THEN LET ty == TypeObj(attr.type.id)
                    IN  QualifiedNameOr(ty, PyStr(ty.repr))
               ELSE PyStr("xs:string"),
   use     |-> IF HasAttr(attr, "use") /\ Truthy(attr.use) THEN attr.use
               ELSE PyStr("optional"),
   default |-> GetAttrOr(attr, "default", PyNone)]

\* Faulty variant of AttributeList: the collection is walked in reverse.
AttributeList_Reversed(attrs) ==
  [i \in 1..Len(attrs) |-> AttrInfo(attrs[Len(attrs) + 1 - i])]

\* [ {...} for attr in type_obj.attributes.values() ]
AttributeList(attrs) == [i \in 1..Len(attrs) |-> AttrInfo(attrs[i])]

\* if hasattr(type_obj, 'attributes') and type_obj.attributes: ...
AddAttributes(info, ty) ==
  IF HasAttr(ty, "attributes") /\ ty.attributes # <<>>
  THEN [attributes |-> AttributeList(ty.attributes)] @@ info
  ELSE info

\* if hasattr(type_obj, 'content') and type_obj.content: ...
AddContentModel(info, ty) ==
  IF HasAttr(ty, "content") /\ TruthyContent(ty.content)
  THEN [content_model |-> PyStr(ty.content.cls)] @@ info
  ELSE info

\* The dict of one child element.
ChildInfo(elem) ==
  [name       |-> PyOr(PyOr(elem.qualified_name, elem.name),
                       PyStr("unknown")),
   type       |-> IF Truthy(elem.type)
                  THEN LET ty == TypeObj(elem.type.id)
                       IN  QualifiedNameOr(ty, PyStr(ty.cls))
                  ELSE PyStr("unknown"),
   min_occurs |-> GetAttrOr(elem, "min_occurs", PyInt(1)),
   max_occurs |-> GetAttrOr(elem, "max_occurs", PyInt(1))]

\* The list comprehension over the iterated elements: the dicts built so
\* far, and whether reading an element raised.
RECURSIVE ChildList(_, _)
ChildList(items, acc) ==
  IF items = <<>> THEN [raised |-> FALSE, list |-> acc]
  ELSE IF Elems[items[1]].raises THEN [raised |-> TRUE, list |-> acc]
  ELSE ChildList(Tail(items), Append(acc, ChildInfo(Elems[items[1]])))

\* The body of the try block: list(content.iter_elements()), then the
\* comprehension.
TryChildElements(content) ==
  IF content.iter_elements.raise_at # 0
  THEN [raised |-> TRUE, list |-> <<>>]
  ELSE ChildList(content.iter_elements.particles, <<>>)

\* Faulty variant of StoreChildElements: what was built before the error is kept.
StoreChildElements_Partial(info, tried) ==
  IF tried.list # <<>> THEN [child_elements |-> tried.list] @@ info
  ELSE info

\* if elements: info['child_elements'] = [...], and except: pass
StoreChildElements(info, tried) ==
  IF ~tried.raised /\ tried.list # <<>>
  THEN [child_elements |-> tried.list] @@ info
  ELSE info

\* if hasattr(type_obj, 'content') and type_obj.content
\*    and hasattr(type_obj.content, 'iter_elements'): try: ...
AddChildElements(info, ty) ==
  IF /\ HasAttr(ty, "content")
     /\ TruthyContent(ty.content)
     /\ HasAttr(ty.content, "iter_elements")
  THEN StoreChildElements(info, TryChildElements(ty.content))
  ELSE info

STR_Complex == <<"C","o","m","p","l","e","x">>

STR_Simple == <<"S","i","m","p","l","e">>

ExtractTypeInfo(ty) ==
  LET qn   == GetAttrOr(ty, "qualified_name", PyNone)
      info == [name           |-> qn,
               qualified_name |-> qn,
               category       |-> PyStr(ty.cls),
               is_complex     |-> Contains(ClassNameChars[ty.cls],
                                           STR_Complex),
               is_simple      |-> Contains(ClassNameChars[ty.cls],
                                           STR_Simple)]
  IN  AddChildElements(AddAttributes(AddContentModel(info, ty), ty), ty)

ExtractComplexTypeInfo(ty) ==
  LET info == [name           |-> PyOr(ty.qualified_name, ty.name),
               qualified_name |-> PyOr(ty.qualified_name, ty.name),
               category       |-> PyStr(ty.cls),
               is_complex     |-> TRUE,
               is_simple      |-> FALSE]
  IN  AddChildElements(AddAttributes(AddContentModel(info, ty), ty), ty)

ExtractSimpleTypeInfo(ty) ==
  [name           |-> PyOr(ty.qualified_name, ty.name),
   qualified_name |-> PyOr(ty.qualified_name, ty.name),
   category       |-> PyStr(ty.cls),
   base_type      |-> IF HasAttr(ty, "base_type") /\ Truthy(ty.base_type)
                      THEN TypeObj(ty.base_type.id).qualified_name
                      ELSE PyNone,
   restrictions   |-> PyNone]

\* rets holds what the nested extract_type_info call returned.
ExtractElementInfo(elem, rets) ==
  [name           |-> PyOr(elem.qualified_name, elem.name),
   qualified_name |-> PyOr(elem.qualified_name, elem.name),
   type           |-> IF Truthy(elem.type) THEN rets[1] ELSE PyNone,
   min_occurs     |-> GetAttrOr(elem, "min_occurs", PyInt(1)),
   max_occurs     |-> GetAttrOr(elem, "max_occurs", PyInt(1)),
   nillable       |-> GetAttrOr(elem, "nillable", PyBool(FALSE)),
   default        |-> GetAttrOr(elem, "default", PyNone)]

\* The types of the elements a type's content iterates.
ChildTypeIds(id) ==
  LET ty == TypeObj(id)
  IN  IF /\ HasAttr(ty, "content")
         /\ TruthyContent(ty.content)
         /\ HasAttr(ty.content, "iter_elements")
      THEN LET ps == ty.content.iter_elements.particles
           IN  SelectSeq([i \in 1..Len(ps) |->
                            IF ~Elems[ps[i]].raises /\ Truthy(Elems[ps[i]].type)
                            THEN Elems[ps[i]].type.id ELSE "none"],
                         LAMBDA x : x # "none")
      ELSE <<>>

\* Faulty variant of Callees: extract_type_info expands the type of every child
\* element with a nested extract_type_info call.
Callees_Recursive(fn, arg) ==
  IF fn = "extract_element_info"
  THEN IF ~Elems[arg].raises /\ Truthy(Elems[arg].type)
       THEN <<[fn |-> "extract_type_info", arg |-> Elems[arg].type.id]>>
       ELSE <<>>
  ELSE IF fn = "extract_type_info"
  THEN [i \in 1..Len(ChildTypeIds(arg)) |->
          [fn |-> "extract_type_info", arg |-> ChildTypeIds(arg)[i]]]
  ELSE <<>>

\* The calls the body of fn(arg) makes to the helpers of this file, in
\* order: extract_element_info calls extract_type_info on the element's
\* type, unless reading the element's name raised before.
Callees(fn, arg) ==
  IF /\ fn = "extract_element_info"
     /\ ~Elems[arg].raises
     /\ Truthy(Elems[arg].type)
  THEN <<[fn |-> "extract_type_info", arg |-> Elems[arg].type.id]>>
  ELSE <<>>

\* The value fn(arg) returns, given what its nested calls returned.
ReturnValue(fn, arg, rets) ==
  CASE fn = "extract_element_info"      -> ExtractElementInfo(Elems[arg], rets)
    [] fn = "extract_type_info"         -> ExtractTypeInfo(TypeObj(arg))
    [] fn = "extract_complex_type_info" -> ExtractComplexTypeInfo(TypeObj(arg))
    [] fn = "extract_simple_type_info"  -> ExtractSimpleTypeInfo(TypeObj(arg))

(***************************************************************************)
(* The extractor's calls                                                   *)
(***************************************************************************)
\* The catalog side is not in use.
CatalogIdle ==
  /\ catalog_path = path_cat
  /\ lines = <<>>
  /\ pc = "start"
  /\ idx = 0
  /\ urn_map = <<>>
  /\ current_base = None
  /\ uri_arg = None
  /\ uri_ret = None

ExtractInit ==
  /\ CatalogIdle
  /\ subject \in SubjectTypes
  /\ ExtractorIdle

Frame(fn, arg) == [fn |-> fn, arg |-> arg, rets |-> <<>>]

\* The first frame of the host's call fn(arg).
Enter(fn, arg) ==
  /\ call' = [fn |-> fn, arg |-> arg]
  /\ stack' = <<Frame(fn, arg)>>
  /\ xpc' = "running"
  /\ UNCHANGED <<subject, result, catalog_vars>>

\* The host calls extract_element_info(element).
CallExtractElementInfo ==
  /\ xpc = "idle"
  /\ \E e \in ElemIds : Enter("extract_element_info", e)

\* The host calls extract_type_info(type_obj).
CallExtractTypeInfo ==
  /\ xpc = "idle"
  /\ \E ty \in TypeIds : Enter("extract_type_info", ty)

\* The host calls extract_complex_type_info on a complex type declaration.
CallExtractComplexTypeInfo ==
  /\ xpc = "idle"
  /\ \E ty \in {"T_node", "T_anon", "T_subject"} :
       Enter("extract_complex_type_info", ty)

\* The host calls extract_simple_type_info on a simple type declaration.
CallExtractSimpleTypeInfo ==
  /\ xpc = "idle"
  /\ \E ty \in {"T_string", "T_token"} :
       Enter("extract_simple_type_info", ty)

Top == stack[Len(stack)]

\* Reading the element's fields raises: the error reaches the host.
RaiseError ==
  /\ xpc = "running"
  /\ Top.fn = "extract_element_info"
  /\ Elems[Top.arg].raises
  /\ stack' = <<>>
  /\ xpc' = "raised"
  /\ UNCHANGED <<subject, call, result, catalog_vars>>

\* The running function calls the next helper its body calls.
CallNested ==
  /\ xpc = "running"
  /\ ~(Top.fn = "extract_element_info" /\ Elems[Top.arg].raises)
  /\ Len(Top.rets) < Len(Callees(Top.fn, Top.arg))
  /\ Len(stack) < MaxDepth
  /\ LET c == Callees(Top.fn, Top.arg)[Len(Top.rets) + 1]
     IN  stack' = Append(stack, Frame(c.fn, c.arg))
  /\ UNCHANGED <<subject, call, xpc, result, catalog_vars>>

\* The running function returns: to its caller, or to the host.
Return ==
  /\ xpc = "running"
  /\ ~(Top.fn = "extract_element_info" /\ Elems[Top.arg].raises)
  /\ Len(Top.rets) >= Len(Callees(Top.fn, Top.arg))
  /\ LET v == ReturnValue(Top.fn, Top.arg, Top.rets)
         n == Len(stack)
     IN  IF n = 1
         THEN /\ stack' = <<>>
              /\ result' = v
              /\ xpc' = "returned"
         ELSE /\ stack' = [SubSeq(stack, 1, n - 1) EXCEPT
                             ![n - 1].rets = Append(@, v)]
              /\ UNCHANGED <<result, xpc>>
  /\ UNCHANGED <<subject, call, catalog_vars>>

\* The host takes the outcome; the next call may follow.
HostContinues ==
  /\ xpc \in {"returned", "raised"}
  /\ call' = PyNone
  /\ stack' = <<>>
  /\ xpc' = "idle"
  /\ result' = PyNone
  /\ UNCHANGED <<subject, catalog_vars>>

ExtractNext ==
  \/ CallExtractElementInfo
  \/ CallExtractTypeInfo
  \/ CallExtractComplexTypeInfo
  \/ CallExtractSimpleTypeInfo
  \/ RaiseError
  \/ CallNested
  \/ Return
  \/ HostContinues

ExtractSpec == ExtractInit /\ [][ExtractNext]_vars

(***************************************************************************)
(* Vocabulary of the properties below, stated on the file's text: the      *)
(* quoted fields of a line are located by the positions of its quote       *)
(* characters, and a line is classified after surrounding whitespace is    *)
(* removed, as the parser sees it.                                         *)
(***************************************************************************)
\* "/cat/schemas/foo.xsd"
str_schemas_foo ==
  <<"/","c","a","t","/","s","c","h","e","m","a","s","/","f","o","o",".","x",
    "s","d">>

\* "/cat/schemas/ignored"
str_schemas_ignored ==
  <<"/","c","a","t","/","s","c","h","e","m","a","s","/","i","g","n","o","r",
    "e","d">>

MaxOf(S) == CHOOSE m \in S : \A k \in S : k <= m

\* The positions of the quote characters of s, in order.
RECURSIVE QuotePositionsFrom(_, _)
QuotePositionsFrom(s, i) ==
  IF i > Len(s) THEN <<>>
  ELSE IF s[i] = QUOTE THEN <<i>> \o QuotePositionsFrom(s, i + 1)
  ELSE QuotePositionsFrom(s, i + 1)

QuoteCount(s) == Len(QuotePositionsFrom(s, 1))

\* The k-th quoted field of s: the text after the (2k-1)-th quote, up to the
\* next quote or, when the field is not closed, to the end of the line.
QuotedField(s, k) ==
  LET qp == QuotePositionsFrom(s, 1)
      to == IF Len(qp) >= 2 * k THEN qp[2 * k] - 1 ELSE Len(s)
  IN  SubSeq(s, qp[2 * k - 1] + 1, to)

TextOf(i) == Strip(lines[i])

IsBaseLine(i) == StartsWith(TextOf(i), kw_BASE)

IsUriLine(i) == StartsWith(TextOf(i), kw_URI)

\* A BASE line that carries a quoted field.
BaseWithField(i) == IsBaseLine(i) /\ QuoteCount(TextOf(i)) >= 1

\* A URI line with the two quoted fields the parser needs.
AcceptedUri(i) == IsUriLine(i) /\ QuoteCount(TextOf(i)) >= 3

UrnOf(i) == QuotedField(TextOf(i), 1)

\* A BASE value with one leading "../../" removed, if it has one.
WithoutParentPrefix(v) ==
  IF Len(v) >= 6 /\ SubSeq(v, 1, 6) = PARENT_PREFIX
  THEN SubSeq(v, 7, Len(v))
  ELSE v

\* canonicalize(catalog_dir / base / local), and without a base component
\* when there is none.
Canonical(base, local) ==
  LET dir == CatalogDir(catalog_path)
  IN  PathStr(PathResolve(
        IF base.isNone THEN PathJoin(dir, local)
        ELSE PathJoin(PathJoin(dir, base.v), local)))

\* The BASE value in effect at line i: that of the most recent BASE line
\* with a quoted field before i.
BaseInEffect(i) ==
  LET S == {j \in 1..(i - 1) : BaseWithField(j)}
  IN  IF S = {} THEN None
      ELSE Some(WithoutParentPrefix(QuotedField(TextOf(MaxOf(S)), 1)))

\* The last accepted URI line for urn u among the lines consumed so far.
AcceptedFor(u) == {i \in 1..idx : AcceptedUri(i) /\ UrnOf(i) = u}

LastAccepted(u) == MaxOf(AcceptedFor(u))

(***************************************************************************)
(* C1.  As stated: a URI line with three quoted fields maps its 1st        *)
(* quoted field to the path built from its 3rd quoted field.  The parser   *)
(* takes parts[1] and parts[3] of the quote-split line, which are the 1st  *)
(* and the 2nd quoted field.                                               *)
(***************************************************************************)
\* The line just consumed is a URI line with at least n quoted fields.
JustConsumedUri(n) ==
  /\ pc = "parsing"
  /\ idx >= 1
  /\ IsUriLine(idx)
  /\ QuoteCount(TextOf(idx)) >= 2 * n

\* C1 as stated (refuted): after a URI line with three quoted fields, the
\* entry of its 1st field is canonicalize(catalog_dir / current_base / 3rd
\* field).
C1_ThirdFieldIsPath ==
  JustConsumedUri(3) =>
    /\ UrnOf(idx) \in DOMAIN urn_map
    /\ urn_map[UrnOf(idx)] =
         Canonical(current_base, QuotedField(TextOf(idx), 3))

\* C1 amended: after every accepted URI line, the entry of its 1st quoted
\* field is canonicalize(catalog_dir / current_base / 2nd quoted field); the
\* example of the specification yields "/cat/schemas/ignored".
C1_SecondFieldIsPath ==
  /\ (pc = "parsing" /\ idx >= 1 /\ AcceptedUri(idx)) =>
       /\ UrnOf(idx) \in DOMAIN urn_map
       /\ urn_map[UrnOf(idx)] =
            Canonical(current_base, QuotedField(TextOf(idx), 2))
  /\ (/\ catalog_path = path_cat
      /\ lines = <<line_base_schemas, line_uri_three>>
      /\ idx = 2) =>
       urn_map = (urn_foo :> str_schemas_ignored)

C1_Witness ==
  /\ catalog_path = path_cat
  /\ lines = <<line_base_schemas, line_uri_three>>
  /\ idx = 2
  /\ urn_foo \in DOMAIN urn_map
  /\ urn_map[urn_foo] = str_schemas_ignored
  /\ urn_map[urn_foo] # str_schemas_foo

(***************************************************************************)
(* C3.  A BASE "../../X" line followed by a URI line, with no BASE line    *)
(* in between, gives the URI line's urn the path                           *)
(* canonicalize(catalog_dir / X / p): "../../" is removed once, and a      *)
(* value without that prefix is used unchanged.                            *)
(***************************************************************************)
NoBaseBetween(j, i) == \A k \in (j + 1)..(i - 1) : ~IsBaseLine(k)

\* C3: when a BASE line with value v is followed by a URI line with path p
\* and no BASE line lies between them, the entry of that URI line's urn is
\* canonicalize(catalog_dir / X / p), where X is v without one leading
\* "../../" (so "../../../../x" gives "../../x") and X = v when v does not
\* start with "../../".
C3_BasePrefixStrippedOnce ==
  \A j \in 1..idx : \A i \in (j + 1)..idx :
    (/\ BaseWithField(j)
     /\ AcceptedUri(i)
     /\ NoBaseBetween(j, i)
     /\ i = LastAccepted(UrnOf(i))) =>
      LET v == QuotedField(TextOf(j), 1)
          p == QuotedField(TextOf(i), 2)
          X == IF StartsWith(v, PARENT_PREFIX) THEN SubSeq(v, 7, Len(v))
               ELSE v
      IN  /\ UrnOf(i) \in DOMAIN urn_map
          /\ urn_map[UrnOf(i)] = Canonical(Some(X), p)

\* A value with the prefix twice is reached, and the second one is applied:
\* from /opt/dita the path climbs to the root.
C3_Witness ==
  /\ catalog_path = path_deep
  /\ lines = <<line_base_deep, line_uri_enc>>
  /\ idx = 2
  /\ current_base = Some(<<".", ".", "/", ".", ".", "/", "x">>)
  /\ urn_map[urn_foo_enc] = <<"/", "e", ".", "x", "s", "d">>

(***************************************************************************)
(* C6.  The map holds one entry per urn of an accepted URI line, and it is *)
(* the path of the last such line, with the BASE in effect there.          *)
(***************************************************************************)
\* C6: the keys of the map are exactly the urns of the accepted URI lines
\* consumed so far, one entry each, and the entry of a urn is the path of
\* the last accepted URI line with that urn under the BASE in effect there.
C6_LastEntryWins ==
  /\ DOMAIN urn_map = {UrnOf(i) : i \in {k \in 1..idx : AcceptedUri(k)}}
  /\ \A u \in DOMAIN urn_map :
       LET i == LastAccepted(u)
       IN  urn_map[u] = Canonical(BaseInEffect(i), QuotedField(TextOf(i), 2))

\* The same urn twice, the second time under a BASE: the path changed.
C6_Witness ==
  /\ lines = <<line_uri_three, line_base_schemas, line_uri_three>>
  /\ idx = 3
  /\ Cardinality(AcceptedFor(urn_foo)) = 2
  /\ urn_map[urn_foo] #
       Canonical(BaseInEffect(1), QuotedField(TextOf(1), 2))

(***************************************************************************)
(* C9.  A URI line is stored with the value of the most recent BASE line   *)
(* (with a quoted field) before it, or with no base component when there   *)
(* is none; a BASE line changes no entry.                                  *)
(***************************************************************************)
\* What one consumed line does to the map.
C9_Step ==
  (pc = "parsing" /\ idx' = idx + 1) =>
    LET i == idx + 1
    IN  /\ IsBaseLine(i) => urn_map' = urn_map
        /\ AcceptedUri(i) =>
             /\ UrnOf(i) \in DOMAIN urn_map'
             /\ urn_map'[UrnOf(i)] =
                  Canonical(BaseInEffect(i), QuotedField(TextOf(i), 2))
             /\ \A u \in DOMAIN urn_map :
                  u # UrnOf(i) =>
                    u \in DOMAIN urn_map' /\ urn_map'[u] = urn_map[u]

\* C9: in every step that consumes a line, an accepted URI line is stored
\* with the value of the most recent BASE line with a quoted field before
\* it (without a base component when there is none) and leaves the entries
\* of other urns alone, and a BASE line leaves the whole map alone.
C9_BaseInEffect == [][C9_Step]_vars

\* An entry stored before a BASE line keeps its base-less path after it.
C9_Witness ==
  /\ lines = <<line_uri_enc, line_base_schemas, line_uri_three>>
  /\ idx = 3
  /\ urn_map[urn_foo_enc] = Canonical(None, QuotedField(TextOf(1), 2))
  /\ urn_map[urn_foo] =
       Canonical(Some(<<"s","c","h","e","m","a","s","/">>),
                 QuotedField(TextOf(3), 2))

(***************************************************************************)
(* C10.  Empty lines, comment lines, URI lines with too few quoted fields  *)
(* and lines that start with neither BASE nor URI change nothing: the map  *)
(* and current_base are what parsing the file without them gives.          *)
(***************************************************************************)
Ignorable(raw) ==
  LET s == Strip(raw)
  IN  \/ s = <<>>
      \/ StartsWith(s, kw_COMMENT)
      \/ StartsWith(s, kw_URI) /\ QuoteCount(s) < 3
      \/ ~StartsWith(s, kw_BASE) /\ ~StartsWith(s, kw_URI)

RECURSIVE ParseAll(_, _, _)
ParseAll(st, ls, dir) ==
  IF ls = <<>> THEN st
  ELSE ParseAll(LineStep(st, Head(ls), dir), Tail(ls), dir)

\* C10: the map and current_base after the lines consumed so far are those
\* of parsing the same lines with every ignorable line removed, and once a
\* line was consumed parsing has not stopped with an error.
C10_IgnoredLinesChangeNothing ==
  LET kept == SelectSeq(SubSeq(lines, 1, idx), LAMBDA l : ~Ignorable(l))
      st   == ParseAll([map |-> <<>>, base |-> None], kept,
                       CatalogDir(catalog_path))
  IN  /\ urn_map = st.map
      /\ current_base = st.base
      /\ idx >= 1 => pc \in {"parsing", "mapper", "resolved"}

\* Parsing went on after ignored lines of three kinds and stored an entry.
C10_Witness ==
  /\ lines = <<line_uri_short, line_other, line_uri_enc>>
  /\ pc = "mapper"
  /\ current_base = None
  /\ DOMAIN urn_map = {urn_foo_enc}

(***************************************************************************)
(* C2.  As stated: for a URN u with percent-encoded form e, resolve(e)     *)
(* and resolve(u) return the same path whenever u or e is a key, also when *)
(* only e is.  The mapper decodes its argument and never encodes it.       *)
(***************************************************************************)
\* uri_mapper was called with the string e, and u is its decoded form.
CalledWith(e, u) ==
  /\ pc = "resolved"
  /\ uri_arg = Some(e)
  /\ u = Unquote(e)

\* C2 as stated (refuted): if uri_mapper(e) returned r and u = unquote(e),
\* then uri_mapper(u) returns r too, whenever u or e is a key.
C2_EncodedAndDecodedAgree ==
  LET e == uri_arg.v
      u == Unquote(e)
  IN  (CalledWith(e, u) /\ (u \in DOMAIN urn_map \/ e \in DOMAIN urn_map))
        => UriMapper(urn_map, Some(u)) = uri_ret

\* C2 amended: when the decoded form u is a key and holds no further escape
\* (unquote(u) = u), uri_mapper(e) and uri_mapper(u) both return the entry
\* of u; when only e is a key, uri_mapper(e) returns the entry of e and
\* uri_mapper(u) returns u unchanged.
C2_AgreeWhenDecodedIsKey ==
  LET e == uri_arg.v
      u == Unquote(e)
  IN  (CalledWith(e, u) /\ Unquote(u) = u) =>
        /\ u \in DOMAIN urn_map =>
             /\ uri_ret = Some(urn_map[u])
             /\ UriMapper(urn_map, Some(u)) = uri_ret
        /\ (u \notin DOMAIN urn_map /\ e \in DOMAIN urn_map) =>
             /\ uri_ret = Some(urn_map[e])
             /\ UriMapper(urn_map, Some(u)) = Some(u)

\* The encoded form was resolved through the entry of the decoded form,
\* while the encoded form has an entry of its own.
C2_Witness ==
  /\ CalledWith(urn_foo_enc, urn_foo)
  /\ {urn_foo, urn_foo_enc} \subseteq DOMAIN urn_map
  /\ urn_map[urn_foo] # urn_map[urn_foo_enc]
  /\ uri_ret = Some(urn_map[urn_foo])

(***************************************************************************)
(* C4.  A URI that is no key, decoded or not, is returned as it was given, *)
(* not decoded.                                                            *)
(***************************************************************************)
\* C4: when uri_mapper was called with a string x and neither unquote(x)
\* nor x is a key of the map, it returned x itself, not unquote(x).
C4_UnmappedReturnedUnchanged ==
  (/\ pc = "resolved"
   /\ ~uri_arg.isNone
   /\ Unquote(uri_arg.v) \notin DOMAIN urn_map
   /\ uri_arg.v \notin DOMAIN urn_map) =>
     uri_ret = uri_arg

\* An unmapped URI whose decoded form differs from it, with a non-empty map.
C4_Witness ==
  /\ pc = "resolved"
  /\ uri_arg = Some(uri_file)
  /\ Unquote(uri_arg.v) # uri_arg.v
  /\ urn_map # <<>>
  /\ uri_ret = Some(uri_file)

(***************************************************************************)
(* Vocabulary of the extractor's properties                                *)
(***************************************************************************)
\* The host's call of fn has returned.
Returned(fn) == xpc = "returned" /\ call.fn = fn

Range(seq) == {seq[i] : i \in 1..Len(seq)}

\* The name an entry carries for a declared attribute or element.
NameOrUnknown(n) == IF n.t = "str" /\ n.v # "" THEN n ELSE PyStr("unknown")

\* The content model of ty has an iter_elements.
ExposesIteration(ty) ==
  /\ HasAttr(ty, "content")
  /\ ty.content.t # "None"
  /\ HasAttr(ty.content, "iter_elements")

IteratedParticles(ty) == ty.content.iter_elements.particles

\* Iterating the content, or reading one of the iterated particles, raises.
IterationFails(ty) ==
  \/ ty.content.iter_elements.raise_at # 0
  \/ \E e \in Range(IteratedParticles(ty)) : Elems[e].raises

\* The types reachable from the types in S through child elements.
RECURSIVE ReachableTypes(_)
ReachableTypes(S) ==
  LET T == S \cup UNION {Range(ChildTypeIds(x)) : x \in S}
  IN  IF T = S THEN S ELSE ReachableTypes(T)

\* The content of type id transitively contains an element of type id.
SelfReferential(id) == id \in ReachableTypes(Range(ChildTypeIds(id)))

(***************************************************************************)
(* C5.  As stated: for a type with N >= 0 declared attributes, the result  *)
(* of extract_type has an attributes list of length N, in declaration      *)
(* order.  For N = 0 the code stores no attributes field.                  *)
(***************************************************************************)
\* The i-th entry describes the i-th declared attribute.
InDeclarationOrder(entries, attrs) ==
  /\ Len(entries) = Len(attrs)
  /\ \A i \in 1..Len(attrs) :
       /\ entries[i].name = NameOrUnknown(attrs[i].name)
       /\ entries[i].default =
            (IF HasAttr(attrs[i], "default") THEN attrs[i].default
             ELSE PyNone)

\* C5 as stated (refuted): every type with an attribute collection, empty
\* or not, gets an attributes list with one entry per declared attribute.
C5_AttributesForEveryN ==
  (Returned("extract_type_info")
     /\ HasAttr(TypeObj(call.arg), "attributes")) =>
    /\ HasAttr(result, "attributes")
    /\ InDeclarationOrder(result.attributes, TypeObj(call.arg).attributes)

\* C5 amended: for N >= 1 the attributes list has length N and its i-th
\* entry describes the i-th declared attribute; for N = 0, and for a type
\* without an attribute collection, the result has no attributes field.
C5_AttributesWhenDeclared ==
  Returned("extract_type_info") =>
    LET ty    == TypeObj(call.arg)
        attrs == IF HasAttr(ty, "attributes") THEN ty.attributes ELSE <<>>
    IN  IF Len(attrs) >= 1
        THEN /\ HasAttr(result, "attributes")
             /\ InDeclarationOrder(result.attributes, attrs)
        ELSE ~HasAttr(result, "attributes")

\* Two different attributes, the nameless one first.
C5_Witness ==
  /\ Returned("extract_type_info")
  /\ call.arg = "T_subject"
  /\ HasAttr(result, "attributes")
  /\ Len(result.attributes) = 2
  /\ result.attributes[1].name = PyStr("unknown")
  /\ result.attributes[2].name = PyStr("lang")

(***************************************************************************)
(* C7.  As stated: without element iteration, or when it raises, the call  *)
(* returns a result without child_elements; otherwise child_elements has   *)
(* one entry per iterated particle.  When no particle is iterated the code *)
(* stores no child_elements field either.                                  *)
(***************************************************************************)
ChildrenInIterationOrder(entries, particles) ==
  /\ Len(entries) = Len(particles)
  /\ \A i \in 1..Len(particles) :
       entries[i].name =
         NameOrUnknown(PyOr(Elems[particles[i]].qualified_name,
                            Elems[particles[i]].name))

TypeCall ==
  xpc # "idle" /\ call.fn \in {"extract_type_info", "extract_complex_type_info"}

\* C7 as stated (refuted): a type call always returns; its result has no
\* child_elements when the content exposes no iteration or iterating it
\* raises, and otherwise one entry per iterated particle, in order.
C7_ChildElementsOrNone ==
  TypeCall =>
    /\ xpc # "raised"
    /\ xpc = "returned" =>
         LET ty == TypeObj(call.arg)
         IN  IF ~ExposesIteration(ty) \/ IterationFails(ty)
             THEN ~HasAttr(result, "child_elements")
             ELSE /\ HasAttr(result, "child_elements")
                  /\ ChildrenInIterationOrder(result.child_elements,
                                              IteratedParticles(ty))

\* C7 amended: without element iteration, or when iterating or reading a
\* particle raises, the call returns a result without child_elements, never
\* a partial list; otherwise, when at least one particle is iterated,
\* child_elements has one entry per particle in iteration order, and when
\* none is iterated the result has no child_elements field.
C7_ChildElementsWhenIterated ==
  TypeCall =>
    /\ xpc # "raised"
    /\ xpc = "returned" =>
         LET ty == TypeObj(call.arg)
         IN  IF ~ExposesIteration(ty) \/ IterationFails(ty)
             THEN ~HasAttr(result, "child_elements")
             ELSE IF Len(IteratedParticles(ty)) >= 1
             THEN /\ HasAttr(result, "child_elements")
                  /\ ChildrenInIterationOrder(result.child_elements,
                                              IteratedParticles(ty))
             ELSE ~HasAttr(result, "child_elements")

\* Reading the second particle raised after the first entry was built.
C7_Witness ==
  /\ Returned("extract_type_info")
  /\ call.arg = "T_subject"
  /\ ExposesIteration(subject)
  /\ IteratedParticles(subject) = <<"e_leaf", "e_bad">>
  /\ subject.content.iter_elements.raise_at = 0
  /\ ~HasAttr(result, "child_elements")
  /\ HasAttr(result, "content_model")

(***************************************************************************)
(* C8.  As stated: on a self-referential type graph extract_element and    *)
(* extract_type recurse without bound and never return.  The code records  *)
(* each child element with the name of its type and expands nothing.       *)
(***************************************************************************)
\* The type the host's call extracts: the argument, or the element's type.
CalledOnType(id) ==
  /\ xpc # "idle"
  /\ \/ call.fn = "extract_type_info" /\ call.arg = id
     \/ /\ call.fn = "extract_element_info"
        /\ ~Elems[call.arg].raises
        /\ Elems[call.arg].type = Ref(id)

\* C8 as stated (refuted): a call on a self-referential type never returns.
C8_NeverReturnsOnCycle ==
  \A id \in TypeIds :
    (CalledOnType(id) /\ SelfReferential(id)) => xpc # "returned"

\* C8 amended: the extractor performs no cycle detection and needs none:
\* extract_type calls no extraction helper, extract_element calls
\* extract_type once, so the call depth is at most 2 on every graph, a
\* running call can always take its next step, and on a self-referential
\* type the result names the child elements' types without expanding them.
C8_NoRecursion ==
  /\ Len(stack) <= 2
  /\ \A i \in 1..Len(stack) :
       IF stack[i].fn = "extract_element_info" THEN i = 1
       ELSE i = Len(stack) /\ stack[i].rets = <<>>
  /\ Len(stack) = 2 =>
       /\ stack[2].fn = "extract_type_info"
       /\ Ref(stack[2].arg) = Elems[stack[1].arg].type
  /\ xpc = "running" =>
       /\ stack # <<>>
       /\ Len(Top.rets) < Len(Callees(Top.fn, Top.arg)) =>
            Len(stack) < MaxDepth
  /\ \A id \in TypeIds :
       (CalledOnType(id) /\ SelfReferential(id) /\ xpc = "returned") =>
         LET info == IF call.fn = "extract_type_info" THEN result
                     ELSE result.type
         IN  /\ ~IterationFails(TypeObj(id)) =>
                  HasAttr(info, "child_elements")
             /\ HasAttr(info, "child_elements") =>
                  \A i \in 1..Len(info.child_elements) :
                    info.child_elements[i].type.t = "str"

\* extract_element_info returned for an element whose type holds an
\* element of that same type.
C8_Witness ==
  /\ Returned("extract_element_info")
  /\ call.arg = "e_child"
  /\ SelfReferential("T_node")
  /\ result.type.child_elements[1].type = PyStr("{ns}node")

=============================================================================
